---- MODULE Spec2Model ----
(***************************************************************************)
(* A model of video-stitcher: the catalog/path-resolution layer of         *)
(* video_stitcher/__main__.py and the mtime-driven processing and          *)
(* collation layer of video_stitcher/ffmpeg.py.                            *)
(*                                                                         *)
(* The file system is the state.  A file is a record whose mtime is 0     *)
(* when the file does not exist.  The external tools (ffprobe, ffmpeg)    *)
(* are modelled by what the program observes of them: the readings they   *)
(* print for a given media file, whether their output parses, and which   *)
(* file they leave behind.                                                *)
(***************************************************************************)
EXTENDS Integers, Sequences, FiniteSets, TLC

\* ------------------------------------------------------------------ bounds
\* Item ids are 1..NumIds.
NumIds == 2
\* The latest time stamp.
MaxClock == 2
\* The most files present in videos/inputs when the catalog is resolved.
MaxFiles == 2

\* ------------------------------------------------------- program constants
video_fileexts == <<".mp4", ".mkv", ".mov", ".flv", ".m4v", ".wmv">>

\* IEEE infinities as printed by ffmpeg ("-inf", "inf"): below / above every
\* finite reading of the model.
NegInf == 0 - 1000
PosInf == 1000

Ids == 1..NumIds
Exts == {video_fileexts[k] : k \in 1..Len(video_fileexts)}
Sessions == {"A", "B"}

Max(a, b) == IF a >= b THEN a ELSE b
Min(a, b) == IF a <= b THEN a ELSE b

\* ------------------------------------------------------------------- paths
\* inputs_path / f"{video_id}{ext}"
InputPath(video_id, ext) == <<video_id, ext>>
AllInputPaths == {InputPath(i, e) : i \in Ids, e \in Exts}
\* Path.stem
Stem(path) == path[1]
\* output_dir / f"{input_path.stem}-processed{output_ext}"
ProcessedPath(input_path) == <<Stem(input_path), "-processed", ".mp4">>
\* output_dir / f"{file_title}{output_ext}"
OutputPath(file_title) == <<"output", file_title, ".mp4">>
TempOutputPath(file_title) == <<"tmp", file_title, ".mp4">>
FileTitle(session) == <<"video_", session>>
FileTitles == {FileTitle(s) : s \in Sessions}
None == <<>>

\* ------------------------------------------------------------------- media
\* What the external tools report for a media file: whether the loudnorm
\* JSON block parses, its readings, the container duration (microseconds)
\* when ffprobe prints a "format" section, and whether the encoder manages to
\* write an output for it.
NoMedia ==
  [parses |-> FALSE, input_i |-> 0, input_tp |-> 0, input_lra |-> 0,
   input_thresh |-> 0, target_offset |-> 0, has_duration |-> FALSE, duration |-> 0, encodes |-> FALSE]
Loud ==
  [parses |-> TRUE, input_i |-> 0 - 30, input_tp |-> 0 - 5, input_lra |-> 7,
   input_thresh |-> 0 - 40, target_offset |-> 1, has_duration |-> TRUE, duration |-> 2500, encodes |-> TRUE]
Hot ==
  [parses |-> TRUE, input_i |-> 4, input_tp |-> 6, input_lra |-> 3,
   input_thresh |-> 0 - 6, target_offset |-> 0 - 2, has_duration |-> TRUE, duration |-> 4000, encodes |-> TRUE]
Silent ==
  [parses |-> TRUE, input_i |-> NegInf, input_tp |-> NegInf, input_lra |-> 0,
   input_thresh |-> 0 - 70, target_offset |-> PosInf, has_duration |-> TRUE, duration |-> 1999, encodes |-> TRUE]
Unparsed ==
  [parses |-> FALSE, input_i |-> 0, input_tp |-> 0, input_lra |-> 0,
   input_thresh |-> 0, target_offset |-> 0, has_duration |-> TRUE, duration |-> 3000, encodes |-> TRUE]
NoFormat ==
  [parses |-> TRUE, input_i |-> 0 - 30, input_tp |-> 0 - 5, input_lra |-> 7,
   input_thresh |-> 0 - 40, target_offset |-> 1, has_duration |-> FALSE, duration |-> 0, encodes |-> TRUE]
Unencodable ==
  [parses |-> TRUE, input_i |-> 0 - 30, input_tp |-> 0 - 5, input_lra |-> 7,
   input_thresh |-> 0 - 40, target_offset |-> 1, has_duration |-> TRUE, duration |-> 2500,
   encodes |-> FALSE]
\* An input file holds the name of its kind of media.
Media == {"Loud", "Hot", "Silent", "Unparsed", "NoFormat", "Unencodable"}
Readings(m) ==
  CASE m = "Loud" -> Loud
    [] m = "Hot" -> Hot
    [] m = "Silent" -> Silent
    [] m = "Unparsed" -> Unparsed
    [] m = "NoFormat" -> NoFormat
    [] m = "Unencodable" -> Unencodable
    [] OTHER -> NoMedia

NoFile == [mtime |-> 0, media |-> "none"]
\* The file at a path of videos/inputs, which lists the files that exist.
InputFile(ins, path) == IF path \in DOMAIN ins THEN ins[path] ELSE NoFile
\* A missing file under videos/tmp or videos/output.
NoFile2 == [mtime |-> 0, data |-> "none"]
Exists(f) == f.mtime > 0

VARIABLES
  clock,            \* current time stamp
  inputs,           \* videos/inputs: [existing paths -> [mtime, media]]
  processed_files,  \* videos/tmp/{stem}-processed.mp4: [Ids -> [mtime, data]]
  outputs,          \* videos/output/{file_title}.mp4: [FileTitles -> [mtime, data]]
  temps,            \* videos/tmp/{file_title}.mp4: [FileTitles -> [mtime, data]]
  data,             \* the filtered catalog rows of load_data()
  op,               \* the last operation and its arguments
  ret,              \* what it returned
  raised,           \* whether it raised
  calls,            \* the run_ffmpeg invocations it made, in order
  locals            \* the locals of the last operation at its end, with what it
                    \* wrote to the metadata file (read by the muxer alone)

vars == <<clock, inputs, processed_files, outputs, temps, data,
          op, ret, raised, calls, locals>>

\* ---------------------------------------------------------------- ffmpeg.py
\* probe(filename)["format"]["duration"]: a KeyError / JSON error when ffprobe
\* prints no format section (also for a missing file).
ProbeHasDuration(f) == Exists(f) /\ Readings(f.media).has_duration

\* int(float(duration) * 1000): seconds to ticks of 1/1000 s, truncated.  The
\* duration is kept in microseconds (ffprobe prints six decimals).
Ticks(f) == Readings(f.media).duration \div 1000

\* loudness_probe: raises when the trimmed ffmpeg output is not JSON.
LoudnessProbeParses(f) == Exists(f) /\ Readings(f.media).parses

loudness_probe(f) ==
  [input_i |-> Readings(f.media).input_i, input_tp |-> Readings(f.media).input_tp,
   input_lra |-> Readings(f.media).input_lra, input_thresh |-> Readings(f.media).input_thresh,
   target_offset |-> Readings(f.media).target_offset]

\* loudness_params['input_i'] = str(min(float(loudness_params['input_i']), 0))
CapInputI(params) == [params EXCEPT !.input_i = Min(params.input_i, 0)]

\* A variant that passes a silent reading on as measured.
ClampSilent_Unclamped(params) == params

\* if loudness_params['input_i'] == "-inf": the three sentinel assignments.
ClampSilent(params) ==
  IF params.input_i = NegInf
  THEN [params EXCEPT !.input_i = 0 - 99, !.input_tp = 0 - 99, !.target_offset = 0]
  ELSE params

\* run_ffmpeg ignores the exit status: a failed encode leaves the output path
\* as it was.
EncoderWrites(f) == Exists(f) /\ Readings(f.media).encodes

\* A variant that never looks at the modification times.
ProcessedUpToDate_ExistsOnly(out, inp) == Exists(out)

\* A variant that takes equal modification times for stale.
ProcessedUpToDate_Strict(out, inp) == Exists(out) /\ out.mtime > inp.mtime

\* output_path.exists() and getmtime(output_path) >= getmtime(input_path)
ProcessedUpToDate(out, inp) == Exists(out) /\ out.mtime >= inp.mtime

\* The run_ffmpeg call of process_video, as logged, with the exit status
\* run_ffmpeg returns (no caller reads it).
EncodeCall(input_path, title_text, params, ok) ==
  [tool |-> "encode", input |-> input_path, output |-> ProcessedPath(input_path),
   title |-> title_text, params |-> params, ok |-> ok]

\* process_video(input_path, title_text, tmp_dir) on the files ins (inputs)
\* and pf (processed clips) at time now.  Yields the new processed clips, the return value, whether it
\* raised, and the encoder and probe invocations made.
process_video(ins, pf, now, input_path, title_text) ==
  LET inp == InputFile(ins, input_path)
      out == pf[Stem(input_path)]
      params == ClampSilent(CapInputI(loudness_probe(inp)))
  IN  IF Exists(out) /\ ~Exists(inp)
      THEN \* os.path.getmtime(input_path) raises FileNotFoundError
           [pf |-> pf, raised |-> TRUE, ret |-> None, calls |-> <<>>, probed |-> FALSE]
      ELSE IF ProcessedUpToDate(out, inp)
      THEN [pf |-> pf, raised |-> FALSE, ret |-> ProcessedPath(input_path),
            calls |-> <<>>, probed |-> FALSE]
      ELSE IF ~LoudnessProbeParses(inp)
      THEN [pf |-> pf, raised |-> TRUE, ret |-> None, calls |-> <<>>, probed |-> TRUE]
      ELSE [pf |-> IF EncoderWrites(inp)
                   THEN [pf EXCEPT ![Stem(input_path)] = [mtime |-> now, data |-> "clip"]]
                   ELSE pf,
            raised |-> FALSE, ret |-> ProcessedPath(input_path),
            calls |-> <<EncodeCall(input_path, title_text, params, EncoderWrites(inp))>>,
            probed |-> TRUE]

\* A variant that renders again when the output is exactly as old as a clip.
OutputUpToDate_Strict(out, max_input_mtime) == Exists(out) /\ out.mtime > max_input_mtime

\* output_path.exists() and os.path.getmtime(output_path) >= max_input_mtime
OutputUpToDate(out, max_input_mtime) == Exists(out) /\ out.mtime >= max_input_mtime

\* One [CHAPTER] block of the metadata string.
Chapter(playhead, ticks, metadata_title) ==
  [START |-> playhead, END |-> playhead + ticks, title |-> metadata_title]

\* The locals of collate_videos before the loop; p is <<>> while unbound.
\* failed lists the items a "Processing error" was printed for.
CollateStart(pf) ==
  [pf |-> pf, calls |-> <<>>, p |-> <<>>, playhead |-> 0, processed |-> <<>>,
   max_input_mtime |-> 0, metadata_string |-> <<>>, probes |-> 0, failed |-> <<>>]

\* The second try block of one iteration, after process_video returned or
\* raised with result r: getmtime(p), processed.append(p), the duration probe
\* and the chapter entry.
CollateSecondTry(ins, st, item, r) ==
  LET path == item[1]
      title == item[2]
      \* first try: p is assigned only when process_video returns
      p == IF r.raised THEN st.p ELSE <<r.ret>>
      s1 == [st EXCEPT !.pf = r.pf, !.calls = st.calls \o r.calls, !.p = p,
                       !.probes = st.probes + (IF r.probed THEN 1 ELSE 0),
                       !.failed = IF r.raised THEN Append(st.failed, item) ELSE st.failed]
  IN  IF p = <<>>
      THEN s1   \* NameError: p is unbound
      ELSE LET clip == r.pf[p[1][1]]
           IN IF ~Exists(clip)
              THEN s1   \* os.path.getmtime(p) raises FileNotFoundError
              ELSE LET s2 == [s1 EXCEPT !.max_input_mtime = Max(st.max_input_mtime, clip.mtime),
                                        !.processed = Append(st.processed, p[1])]
                   IN IF ~ProbeHasDuration(InputFile(ins, path))
                      THEN s2   \* probe(path)["format"]["duration"] raises
                      ELSE [s2 EXCEPT
                              !.metadata_string =
                                 Append(st.metadata_string,
                                        Chapter(st.playhead, Ticks(InputFile(ins, path)), title)),
                              !.playhead = st.playhead + Ticks(InputFile(ins, path)) + 1]

\* One iteration of "for path, title in path_title_list": the two try blocks.
CollateItem(ins, now, st, item) ==
  CHOOSE s \in { CollateSecondTry(ins, st, item, r) :
                 r \in {process_video(ins, st.pf, now, item[1], item[2])} } : TRUE

RECURSIVE CollateLoop(_, _, _, _, _)
CollateLoop(ins, now, st, path_title_list, k) ==
  IF k > Len(path_title_list)
  THEN st
  ELSE CHOOSE end \in { CollateLoop(ins, now, s, path_title_list, k + 1) :
                        s \in {CollateItem(ins, now, st, path_title_list[k])} } : TRUE

\* The concatenation run_ffmpeg call, as logged, with its exit status.
ConcatCall(processed, chapters, file_title, ok) ==
  [tool |-> "concat", clips |-> processed, chapters |-> chapters,
   output |-> TempOutputPath(file_title), ok |-> ok]

\* What ffmpeg leaves at temp_output_path: a complete file, a partial one
\* (it failed midway), or nothing new (it failed before writing).
ConcatOutcomes == {"ok", "partial", "nothing"}
ConcatWrite(temp, now, outcome) ==
  IF outcome = "ok" THEN [mtime |-> now, data |-> "video"]
  ELSE IF outcome = "partial" THEN [mtime |-> now, data |-> "partial"]
  ELSE temp

\* Whether "for path, title in ..." can unpack every item; it raises
\* ValueError at the first item that is not a pair.
Unpackable(path_title_list) ==
  \A k \in 1..Len(path_title_list) : Len(path_title_list[k]) = 2

\* The part of collate_videos after the loop, with the loop's locals st: the
\* empty check, the freshness check, the concatenation and the rename.
CollateFinish(fs, st, unpackable, file_title, outcome) ==
  LET out == fs.outputs[file_title]
      temp == ConcatWrite(fs.temps[file_title], fs.clock, outcome)
      call == ConcatCall(st.processed, st.metadata_string, file_title, outcome = "ok")
      base == [processed_files |-> st.pf, outputs |-> fs.outputs, temps |-> fs.temps,
               raised |-> FALSE, ret |-> None, calls |-> st.calls,
               locals |-> [processed |-> st.processed,
                           max_input_mtime |-> st.max_input_mtime,
                           metadata_string |-> st.metadata_string,
                           probes |-> st.probes, skipped |-> FALSE,
                           seen |-> IF unpackable /\ st.processed # <<>> THEN out ELSE NoFile2,
                           failed |-> st.failed]]
  IN  IF ~unpackable
      THEN [base EXCEPT !.raised = TRUE]
      ELSE IF st.processed = <<>>
      THEN base
      ELSE IF OutputUpToDate(out, st.max_input_mtime)
      THEN [base EXCEPT !.ret = OutputPath(file_title), !.locals.skipped = TRUE]
      ELSE IF ~Exists(temp)
      THEN \* os.rename(temp_output_path, output_path) raises FileNotFoundError
           [base EXCEPT !.raised = TRUE, !.calls = Append(st.calls, call)]
      ELSE [base EXCEPT !.outputs = [fs.outputs EXCEPT ![file_title] = temp],
                        !.temps = [fs.temps EXCEPT ![file_title] = NoFile2],
                        !.ret = OutputPath(file_title),
                        !.calls = Append(st.calls, call)]

\* collate_videos(path_title_list, file_title, tmp_dir, output_dir) on the
\* file system fs; outcome is what the concatenation leaves behind.
collate_videos(fs, path_title_list, file_title, outcome) ==
  CHOOSE res \in
    { CollateFinish(fs, st, Unpackable(path_title_list), file_title, outcome) :
      st \in { IF Unpackable(path_title_list)
               THEN CollateLoop(fs.inputs, fs.clock, CollateStart(fs.processed_files),
                                path_title_list, 1)
               ELSE CollateStart(fs.processed_files) } } : TRUE

\* -------------------------------------------------------------- __main__.py
id_col(row) == row.id
title_col(row) == row.title
authors_col(row) == row.authors
session_col(row) == row.session_code

\* video_path(video_id): the body of "for ext in video_fileexts" returns on
\* both branches of its if; falling off the end of the loop returns None.
RECURSIVE VideoPathFrom(_, _, _)
VideoPathFrom(ins, video_id, k) ==
  IF k > Len(video_fileexts)
  THEN None
  ELSE IF Exists(InputFile(ins, InputPath(video_id, video_fileexts[k])))
       THEN InputPath(video_id, video_fileexts[k])
       ELSE None

video_path(ins, video_id) == VideoPathFrom(ins, video_id, 1)

\* The two list comprehensions of build_video_lists for session s.
RECURSIVE MapEntries(_, _, _)
MapEntries(ins, rows, s) ==
  IF rows = <<>>
  THEN <<>>
  ELSE LET entry == Head(rows)
           rest == MapEntries(ins, Tail(rows), s)
       IN  IF session_col(entry) = s
           THEN <<<<video_path(ins, id_col(entry)), title_col(entry), authors_col(entry)>>>>
                  \o rest
           ELSE rest

IsResolved(t) == t[1] # None
VideoList(ins, rows, s) == SelectSeq(MapEntries(ins, rows, s), IsResolved)

\* {row[session_col] for row in data}
SessionsOf(rows) == {session_col(rows[k]) : k \in 1..Len(rows)}

\* The iteration orders of a set.
Orders(S) ==
  {o \in [1..Cardinality(S) -> S] : \A i, j \in 1..Cardinality(S) : o[i] = o[j] => i = j}

\* build_video_lists(): "for s in sessions" in the iteration order given; the
\* return statement sits inside the loop body, so the loop ends with its first
\* iteration; with no session at all the function falls off its end (None).
\* A dict is its key order and its mapping.
RECURSIVE BuildLoop(_, _, _, _, _)
BuildLoop(ins, rows, order, k, video_dict) ==
  IF k > Len(order)
  THEN [isNone |-> TRUE, keys |-> <<>>, map |-> <<>>]
  ELSE LET s == order[k]
           d == [keys |-> Append(video_dict.keys, s),
                 map |-> [x \in {s} \cup DOMAIN video_dict.map |->
                            IF x = s THEN VideoList(ins, rows, s) ELSE video_dict.map[x]]]
       IN  [isNone |-> FALSE, keys |-> d.keys, map |-> d.map]

build_video_lists(ins, rows, order) ==
  BuildLoop(ins, rows, order, 1, [keys |-> <<>>, map |-> <<>>])

\* "for session, video_list in video_dict.items()" of render: an exception of
\* collate_videos ends render.
RECURSIVE RenderLoop(_, _, _, _, _)
RenderLoop(fs, video_dict, k, outcome, rendered_videos) ==
  IF k > Len(video_dict.keys)
  THEN [fs |-> fs, raised |-> FALSE, rendered_videos |-> rendered_videos, calls |-> <<>>]
  ELSE LET session == video_dict.keys[k]
           r == collate_videos(fs, video_dict.map[session], FileTitle(session), outcome)
           fs2 == [fs EXCEPT !.processed_files = r.processed_files, !.outputs = r.outputs,
                             !.temps = r.temps]
       IN  IF r.raised
           THEN [fs |-> fs2, raised |-> TRUE, rendered_videos |-> rendered_videos,
                 calls |-> r.calls]
           ELSE LET rest == RenderLoop(fs2, video_dict, k + 1, outcome,
                                       IF r.ret # None
                                       THEN Append(rendered_videos, r.ret)
                                       ELSE rendered_videos)
                IN  [rest EXCEPT !.calls = r.calls \o rest.calls]

\* render(): video_dict.items() on None raises AttributeError.
render(fs, rows, order, outcome) ==
  LET video_dict == build_video_lists(fs.inputs, rows, order)
  IN  IF video_dict.isNone
      THEN [fs |-> fs, raised |-> TRUE, rendered_videos |-> <<>>, calls |-> <<>>]
      ELSE RenderLoop(fs, video_dict, 1, outcome, <<>>)


\* ------------------------------------------------------------ state machine
FS ==
  [inputs |-> inputs, clock |-> clock, processed_files |-> processed_files,
   outputs |-> outputs, temps |-> temps]

\* seen is the output file as the freshness check read it.
NoLocals ==
  [processed |-> <<>>, max_input_mtime |-> 0, metadata_string |-> <<>>, probes |-> 0,
   skipped |-> FALSE, seen |-> NoFile2, failed |-> <<>>]

TitleOf(video_id) == <<"title", video_id>>
AuthorsOf(video_id) == <<"authors", video_id>>

\* The (path, title) item of an id.
Item(i) == <<InputPath(i, ".mp4"), TitleOf(i)>>
Items == {Item(i) : i \in Ids}
\* The path_title_lists: the items of a subset of the ids, in catalog order.
Lists ==
  UNION {{l \in [1..n -> Items] : \A a, b \in 1..n : a < b => Stem(l[a][1]) < Stem(l[b][1])}
           : n \in 0..NumIds}
\* The file_title collate_videos is called with directly.
CollateTitle == FileTitle("A")
\* The kinds of input files that make a tool fail.
Defects == {"Unparsed", "NoFormat", "Unencodable"}
\* Every item has an .mp4 input written at time 1, at most one of them of
\* another kind than the plain one.
OneOf(kinds) ==
  {[i \in Ids |-> "Loud"]}
    \cup {[i \in Ids |-> IF i = j THEN m ELSE "Loud"] : j \in Ids, m \in kinds}
InputsOf(m) == [p \in {InputPath(i, ".mp4") : i \in Ids} |-> [mtime |-> 1, media |-> m[p[1]]]]

\* No operation is under observation.
NoOp == [name |-> "idle", list |-> <<>>, title |-> <<>>]
Idle == op = NoOp

EmptyDirs ==
  /\ processed_files = [i \in Ids |-> NoFile2]
  /\ outputs = [t \in FileTitles |-> NoFile2]
  /\ temps = [t \in FileTitles |-> NoFile2]
  /\ op = NoOp
  /\ ret = None
  /\ raised = FALSE
  /\ calls = <<>>
  /\ locals = NoLocals

Init ==
  /\ clock = 1
  /\ \E m \in OneOf(Defects) : inputs = InputsOf(m)
  /\ data = <<>>
  /\ EmptyDirs

\* An input file is modified (uploaded again): it becomes the newest file.
Touch(path) ==
  /\ Idle
  /\ clock + 1 <= MaxClock
  /\ path \in DOMAIN inputs
  /\ clock' = clock + 1
  /\ inputs' = [inputs EXCEPT ![path].mtime = clock + 1]
  /\ UNCHANGED <<processed_files, outputs, temps, data, op, ret, raised, calls, locals>>

\* The operation observed has returned to its caller: its results are dropped.
Return ==
  /\ ~Idle
  /\ op' = NoOp
  /\ ret' = None
  /\ raised' = FALSE
  /\ calls' = <<>>
  /\ locals' = NoLocals
  /\ UNCHANGED <<clock, inputs, processed_files, outputs, temps, data>>

\* process_video(path, title, tmp_dir).
ProcessVideo(item) ==
  /\ Idle
  /\ \E r \in {process_video(inputs, processed_files, clock, item[1], item[2])} :
         /\ processed_files' = r.pf
         /\ ret' = r.ret
         /\ raised' = r.raised
         /\ calls' = r.calls
         /\ locals' = [NoLocals EXCEPT !.probes = IF r.probed THEN 1 ELSE 0,
                                       !.skipped = ~r.probed /\ ~r.raised,
                                       !.seen = processed_files[Stem(item[1])]]
  /\ op' = [name |-> "process_video", list |-> <<item>>, title |-> <<>>]
  /\ UNCHANGED <<clock, inputs, outputs, temps, data>>

\* collate_videos(path_title_list, file_title, tmp_dir, output_dir).
CollateVideos(path_title_list, file_title, outcome) ==
  /\ Idle
  /\ \E r \in {collate_videos(FS, path_title_list, file_title, outcome)} :
         /\ processed_files' = r.processed_files
         /\ outputs' = r.outputs
         /\ temps' = r.temps
         /\ ret' = r.ret
         /\ raised' = r.raised
         /\ calls' = r.calls
         /\ locals' = r.locals
  /\ op' = [name |-> "collate_videos", list |-> path_title_list, title |-> file_title]
  /\ UNCHANGED <<clock, inputs, data>>

Next ==
  \/ \E i \in Ids : Touch(InputPath(i, ".mp4"))
  \/ \E l \in Lists, outcome \in ConcatOutcomes : CollateVideos(l, CollateTitle, outcome)
  \/ Return

Spec == Init /\ [][Next]_vars

\* process_video alone, on every kind of input file.
InitProcess ==
  /\ clock = 1
  /\ \E m \in OneOf(Media) : inputs = InputsOf(m)
  /\ data = <<>>
  /\ EmptyDirs

NextProcess ==
  \/ \E i \in Ids : Touch(InputPath(i, ".mp4"))
  \/ \E item \in Items : ProcessVideo(item)
  \/ Return

SpecProcess == InitProcess /\ [][NextProcess]_vars

\* __main__.py: a catalog and a listing of videos/inputs.
Row(i, s) ==
  [id |-> i, title |-> TitleOf(i), authors |-> AuthorsOf(i), session_code |-> s]
\* The catalogs: rows of distinct ids, by id, each in some session.
RECURSIVE CatalogsFrom(_)
CatalogsFrom(i) ==
  IF i > NumIds
  THEN {<<>>}
  ELSE LET rest == CatalogsFrom(i + 1)
       IN  rest \cup {<<Row(i, s)>> \o c : s \in Sessions, c \in rest}
Catalogs == CatalogsFrom(1)
Listings == {S \in SUBSET AllInputPaths : Cardinality(S) <= MaxFiles}

InitMain ==
  /\ clock = 1
  /\ \E S \in Listings : inputs = [p \in S |-> [mtime |-> 1, media |-> "Loud"]]
  /\ data \in Catalogs
  /\ EmptyDirs

\* video_path(video_id)
VideoPath(video_id) ==
  /\ Idle
  /\ ret' = video_path(inputs, video_id)
  /\ raised' = FALSE
  /\ op' = [name |-> "video_path", list |-> <<video_id>>, title |-> <<>>]
  /\ calls' = <<>>
  /\ locals' = NoLocals
  /\ UNCHANGED <<clock, inputs, processed_files, outputs, temps, data>>

\* build_video_lists(), the set of sessions iterated in the order given.
BuildVideoLists(order) ==
  /\ Idle
  /\ ret' = build_video_lists(inputs, data, order)
  /\ raised' = FALSE
  /\ op' = [name |-> "build_video_lists", list |-> order, title |-> <<>>]
  /\ calls' = <<>>
  /\ locals' = NoLocals
  /\ UNCHANGED <<clock, inputs, processed_files, outputs, temps, data>>

\* render()
Render(order, outcome) ==
  /\ Idle
  /\ \E r \in {render(FS, data, order, outcome)} :
         /\ processed_files' = r.fs.processed_files
         /\ outputs' = r.fs.outputs
         /\ temps' = r.fs.temps
         /\ ret' = r.rendered_videos
         /\ raised' = r.raised
         /\ calls' = r.calls
  /\ op' = [name |-> "render", list |-> order, title |-> <<>>]
  /\ locals' = NoLocals
  /\ UNCHANGED <<clock, inputs, data>>

NextMain ==
  \/ \E i \in Ids : VideoPath(i)
  \/ \E order \in Orders(SessionsOf(data)) : BuildVideoLists(order)
  \/ \E order \in Orders(SessionsOf(data)), outcome \in ConcatOutcomes : Render(order, outcome)
  \/ Return

SpecMain == InitMain /\ [][NextMain]_vars

\* ------------------------------------------------------------------ claims
Range(q) == {q[k] : k \in 1..Len(q)}

\* The rows of session s whose video file video_path resolved, as
\* (path, title, authors), in catalog order.
ResolvedRows(s) ==
  LET Keep(row) == session_col(row) = s /\ video_path(inputs, id_col(row)) # None
      rows == SelectSeq(data, Keep)
  IN  [k \in 1..Len(rows) |->
         <<video_path(inputs, id_col(rows[k])), title_col(rows[k]), authors_col(rows[k])>>]

\* C1: render collates every group that has a resolved item: the call does
\* not raise and the output path it returns is among the rendered videos
\* reported (stated for the runs in which no encoder invocation failed).
C1_RenderCollatesEveryGroup ==
  (op.name = "render" /\ \A k \in 1..Len(calls) : calls[k].ok)
    => \A s \in SessionsOf(data) :
         ResolvedRows(s) # <<>>
           => ~raised /\ OutputPath(FileTitle(s)) \in Range(ret)

\* C2: video_path(id) returns the path of the first extension of
\* video_fileexts whose file exists, and None only when none exists.
C2_VideoPathFirstExisting ==
  op.name = "video_path"
    => LET video_id == op.list[1]
           present == {k \in 1..Len(video_fileexts) :
                         InputPath(video_id, video_fileexts[k]) \in DOMAIN inputs}
       IN  IF present = {}
           THEN ret = None
           ELSE \E k \in present :
                  /\ \A j \in present : k <= j
                  /\ ret = InputPath(video_id, video_fileexts[k])

\* C3: build_video_lists returns a mapping with an entry for every session
\* of the catalog, each the list of the session's resolved rows in catalog
\* order (stated for catalogs that have a row).
C3_BuildVideoListsEverySession ==
  (op.name = "build_video_lists" /\ data # <<>>)
    => /\ ~ret.isNone
       /\ DOMAIN ret.map = SessionsOf(data)
       /\ \A s \in SessionsOf(data) : ret.map[s] = ResolvedRows(s)

\* The input path of the process_video call observed, its input file, and
\* the encoder invocation expected of a call that does the work.
ProcessedInput == op.list[1][1]
IsEncodeOf(call, path) ==
  call.tool = "encode" /\ call.input = path /\ call.output = ProcessedPath(path)
SkippedAllWork ==
  /\ locals.probes = 0
  /\ calls = <<>>
  /\ processed_files[Stem(ProcessedInput)] = locals.seen
  /\ ~raised
  /\ ret = ProcessedPath(ProcessedInput)
ProcessedIsNewer == Exists(locals.seen) /\ locals.seen.mtime > inputs[ProcessedInput].mtime
ProcessedIsMissingOrOlder ==
  ~Exists(locals.seen) \/ locals.seen.mtime < inputs[ProcessedInput].mtime

\* C5 as claimed: process_video skips all work and returns the processed path
\* when the processed output exists and is newer than the input; when it is
\* missing or older, it runs the loudness probe and then the encoder on the
\* input, writing to the processed path.
C5_AsClaimed ==
  op.name = "process_video"
    => /\ ProcessedIsNewer => SkippedAllWork
       /\ ProcessedIsMissingOrOlder
            => /\ locals.probes = 1
               /\ Len(calls) = 1
               /\ IsEncodeOf(calls[1], ProcessedInput)

\* C5, amended: as claimed, except that a loudness probe whose output does
\* not parse makes process_video raise before any encoder invocation.
C5_SkipOrProbeThenEncode ==
  op.name = "process_video"
    => /\ ProcessedIsNewer => SkippedAllWork
       /\ ProcessedIsMissingOrOlder
            => /\ locals.probes = 1
               /\ IF LoudnessProbeParses(inputs[ProcessedInput])
                  THEN /\ Len(calls) = 1
                       /\ IsEncodeOf(calls[1], ProcessedInput)
                       /\ ~raised
                       /\ ret = ProcessedPath(ProcessedInput)
                  ELSE calls = <<>> /\ raised

\* A stale processed clip has been encoded again.
C5_Witness ==
  /\ op.name = "process_video"
  /\ Exists(locals.seen)
  /\ locals.seen.mtime < inputs[ProcessedInput].mtime
  /\ Len(calls) = 1
  /\ processed_files[Stem(ProcessedInput)].mtime > locals.seen.mtime

\* C8: the single encode call of process_video gets input_i = -99,
\* input_tp = -99 and target_offset = 0 for a silent input (measured
\* input_i -inf), and the measured values with input_i capped at 0 otherwise.
C8_SilentSentinels ==
  (op.name = "process_video" /\ locals.probes = 1 /\ ~raised)
    => /\ Len(calls) = 1
       /\ LET m == Readings(inputs[ProcessedInput].media)
              q == calls[1].params
          IN  /\ q.input_lra = m.input_lra
              /\ q.input_thresh = m.input_thresh
              /\ IF m.input_i = NegInf
                 THEN q.input_i = 0 - 99 /\ q.input_tp = 0 - 99 /\ q.target_offset = 0
                 ELSE /\ q.input_i = (IF m.input_i > 0 THEN 0 ELSE m.input_i)
                      /\ q.input_tp = m.input_tp
                      /\ q.target_offset = m.target_offset

\* A silent input has been encoded with the sentinel values.
C8_Witness ==
  /\ op.name = "process_video"
  /\ Readings(inputs[ProcessedInput].media).input_i = NegInf
  /\ Len(calls) = 1
  /\ calls[1].params.input_i = 0 - 99

\* The collate_videos call observed reached its freshness check: the list
\* unpacked and some clip was processed.
ReachedFreshnessCheck == op.name = "collate_videos" /\ locals.processed # <<>>
ConcatCalls == {k \in 1..Len(calls) : calls[k].tool = "concat"}
\* The latest modification time among the clips of the list processed.
LatestClip ==
  CHOOSE t \in {processed_files[c[1]].mtime : c \in Range(locals.processed)} :
    \A c \in Range(locals.processed) : processed_files[c[1]].mtime <= t
\* What collate_videos does with an output it takes for valid, and otherwise.
SkipsConcatenation ==
  /\ ConcatCalls = {}
  /\ outputs[op.title] = locals.seen
  /\ ~raised
  /\ ret = OutputPath(op.title)
RendersAgain == ConcatCalls = {Len(calls)} /\ calls[Len(calls)].clips = locals.processed

\* C4 as claimed: collate_videos takes the existing output for valid (skips
\* the concatenation, leaves the output alone, returns its path) if and only
\* if the output is newer than the latest processed clip; otherwise it
\* renders again.
C4_AsClaimed ==
  ReachedFreshnessCheck
    => IF Exists(locals.seen) /\ locals.seen.mtime > LatestClip
       THEN SkipsConcatenation
       ELSE RendersAgain

\* C4, amended: the output is taken for valid if and only if it exists and
\* is not older than the latest processed clip (equal times count as valid).
C4_ValidIffNotOlder ==
  ReachedFreshnessCheck
    => /\ locals.max_input_mtime = LatestClip
       /\ IF Exists(locals.seen) /\ locals.seen.mtime >= LatestClip
          THEN SkipsConcatenation
          ELSE RendersAgain

\* An output exactly as old as the latest clip has been taken for valid.
C4_Witness ==
  /\ ReachedFreshnessCheck
  /\ Exists(locals.seen)
  /\ locals.seen.mtime = LatestClip
  /\ locals.skipped
  /\ ConcatCalls = {}

\* C6: after a run of collate_videos in which every encoder call succeeded,
\* a second run on the same list, no input modified in between, invokes the
\* encoder zero times, leaves every processed clip and the output unchanged
\* and returns the same path.
C6_SecondRunDoesNothing ==
  (/\ op.name = "collate_videos"
   /\ ~raised
   /\ \A k \in 1..Len(calls) : calls[k].ok)
    => \A outcome \in ConcatOutcomes :
         LET second == collate_videos(FS, op.list, op.title, outcome)
         IN  /\ second.calls = <<>>
             /\ second.processed_files = processed_files
             /\ second.outputs = outputs
             /\ ~second.raised
             /\ second.ret = ret

\* A run has encoded a clip and concatenated, every call succeeding.
C6_Witness ==
  /\ op.name = "collate_videos"
  /\ ~raised
  /\ \A k \in 1..Len(calls) : calls[k].ok
  /\ Len(calls) >= 2
  /\ ConcatCalls # {}
  /\ ret = OutputPath(op.title)

\* The item of the list observed whose processed output a clip is.
ItemsOfClip(clip) == {k \in 1..Len(op.list) : ProcessedPath(op.list[k][1]) = clip}

\* C7: the chapter list handed to the concatenation has one chapter per clip,
\* in order and with that item's title; the first starts at 0, each ends at
\* START + the item's duration in ticks, the next starts at END + 1.
C7_OneChapterPerClip ==
  op.name = "collate_videos"
    => \A c \in ConcatCalls :
         LET clips == calls[c].clips
             chapters == calls[c].chapters
         IN  /\ Len(chapters) = Len(clips)
             /\ \A k \in 1..Len(chapters) :
                  /\ \E i \in ItemsOfClip(clips[k]) :
                       /\ chapters[k].title = op.list[i][2]
                       /\ chapters[k].END
                            = chapters[k].START + Ticks(InputFile(inputs, op.list[i][1]))
                  /\ chapters[k].START = (IF k = 1 THEN 0 ELSE chapters[k - 1].END + 1)

\* C9: an item whose process_video call raised contributes no clip and no
\* chapter, and no clip is in the concatenation list twice.
C9_FailedItemContributesNothing ==
  op.name = "collate_videos"
    => /\ \A k \in 1..Len(locals.failed) :
            /\ ProcessedPath(locals.failed[k][1]) \notin Range(locals.processed)
            /\ \A j \in 1..Len(locals.metadata_string) :
                 locals.metadata_string[j].title # locals.failed[k][2]
       /\ \A a, b \in 1..Len(locals.processed) :
            locals.processed[a] = locals.processed[b] => a = b

\* C10: a file reaches the final output path, and the path is returned, only
\* after the concatenation succeeded: a failed concatenation leaves the
\* output as it was, publishes no partial file and is not reported as a
\* created video (stated for the runs without a processing error).
C10_PublishedOnlyOnSuccess ==
  (op.name = "collate_videos" /\ locals.failed = <<>>)
    => \A c \in ConcatCalls :
         ~calls[c].ok
           => /\ outputs[op.title] = locals.seen
              /\ outputs[op.title].data # "partial"
              /\ ret # OutputPath(op.title)

====
